---- MODULE Spec2Model ----
(***************************************************************************)
(* Model of the XYZAxis legend widget of seismic-canvas (xyz_axis.py): the *)
(* drag handlers set_anchor / drag_visual_node / reset_highlight /         *)
(* update_location and the alignment transform rebuilt by _update_axis.    *)
(*                                                                         *)
(* Screen positions are integer pairs.  The 4x4 transform matrix is kept   *)
(* in fixed point, every entry in units of 1/Unit, so that the depth scale *)
(* 0.001 of the source is the integer 1.  Camera angles are multiples of   *)
(* 90 degrees, where sine and cosine are -1, 0 or 1.                       *)
(***************************************************************************)
EXTENDS Integers, Sequences, FiniteSets, TLC

\* Cap of the count of recomputes in a row.
MaxStreak == 2
\* Largest horizontal pointer / location coordinate of the model.
MaxCoord == 1

\* Fixed-point denominator: 0.001 (line 125) is 1/Unit.
Unit == 1000
\* The depth scale 0.001 of line 125, in units of 1/Unit.
DepthScale == 1
\* Highlight alpha in tenths: 0.5 (lines 36, 93) and 1.0 (line 87).
Translucent == 5
Opaque == 10

Coord == 0..MaxCoord
YCoord == 0..1
Pos == Coord \X YCoord
Sizes == {1, 2}
Azimuths == {-90, 0, 90, 180}
Elevations == {-90, 0, 90}
Buttons == {1, 2}

\* self.anchor = None (line 41, 102) is the empty sequence; a captured anchor
\* is a pair.  self.offset = 0 (line 42, 103) is the scalar <<0>>; an offset
\* computed by drag_visual_node is a pair (an ndarray of two elements).
None == <<>>
Zero == <<0>>

VAdd(a, b) == <<a[1] + b[1], a[2] + b[2]>>
VSub(a, b) == <<a[1] - b[1], a[2] - b[2]>>

\* ------------------------------------------------------------------------
\* MatrixTransform operations used by _update_axis (row-vector convention:
\* every call post-multiplies the current matrix).

Cos(d) == CASE d % 360 = 0 -> 1 [] d % 360 = 180 -> -1 [] OTHER -> 0
Sin(d) == CASE d % 360 = 90 -> 1 [] d % 360 = 270 -> -1 [] OTHER -> 0

Identity ==
  << <<Unit, 0, 0, 0>>, <<0, Unit, 0, 0>>, <<0, 0, Unit, 0>>, <<0, 0, 0, Unit>> >>

\* Entry (i, j) of the product of A and B, in units of 1/Unit.
Dot(A, B, i, j) ==
  (A[i][1] * B[1][j] + A[i][2] * B[2][j]
     + A[i][3] * B[3][j] + A[i][4] * B[4][j]) \div Unit

MatRow(A, B, i) == <<Dot(A, B, i, 1), Dot(A, B, i, 2), Dot(A, B, i, 3), Dot(A, B, i, 4)>>

MatMul(A, B) == <<MatRow(A, B, 1), MatRow(A, B, 2), MatRow(A, B, 3), MatRow(A, B, 4)>>

\* scale(v): v in units of 1/Unit.
ScaleM(v) ==
  << <<v[1], 0, 0, 0>>, <<0, v[2], 0, 0>>, <<0, 0, v[3], 0>>, <<0, 0, 0, Unit>> >>

\* rotate(angle, axis) for the axes (1,0,0) = "x" and (0,1,0) = "y".
RotateM(angle, axis) ==
  LET c == Cos(angle) * Unit
      s == Sin(angle) * Unit
  IN IF axis = "x"
     THEN << <<Unit, 0, 0, 0>>, <<0, c, s, 0>>, <<0, -s, c, 0>>, <<0, 0, 0, Unit>> >>
     ELSE << <<c, 0, -s, 0>>, <<0, Unit, 0, 0>>, <<s, 0, c, 0>>, <<0, 0, 0, Unit>> >>

\* translate(pos) with a 2D position: the depth component is 0.
TranslateM(p) ==
  << <<Unit, 0, 0, 0>>, <<0, Unit, 0, 0>>, <<0, 0, Unit, 0>>,
     <<p[1] * Unit, p[2] * Unit, 0, Unit>> >>

\* One call on the transform: its name and arguments.
CallReset == [op |-> "reset", arg |-> <<>>]
CallScale(v) == [op |-> "scale", arg |-> v]
CallRotate(angle, axis) == [op |-> "rotate", arg |-> <<angle, axis>>]
CallTranslate(p) == [op |-> "translate", arg |-> p]

\* The matrix after one call on the transform.
ApplyCall(m, call) ==
  CASE call.op = "reset" -> Identity
    [] call.op = "scale" -> MatMul(m, ScaleM(call.arg))
    [] call.op = "rotate" -> MatMul(m, RotateM(call.arg[1], call.arg[2]))
    [] call.op = "translate" -> MatMul(m, TranslateM(call.arg))

RECURSIVE ApplyCalls(_, _)
ApplyCalls(m, calls) ==
  IF calls = <<>> THEN m
  ELSE ApplyCalls(ApplyCall(m, Head(calls)), Tail(calls))

\* ------------------------------------------------------------------------
\* _update_axis

\* Faulty variant: the azimuth and elevation rotations in the other order.
AxisCallsSwapped(seis, az, el, sz, l) ==
  <<CallReset>>
    \o (IF seis THEN <<CallScale(<<Unit, -Unit, -Unit>>)>> ELSE <<>>)
    \o << CallRotate(90, "x"),
          CallRotate(el, "x"),
          CallRotate(az, "y"),
          CallScale(<<sz * Unit, sz * Unit, DepthScale>>),
          CallTranslate(l) >>

\* Faulty variant: the translation applied before the scale to display size.
AxisCallsTranslateFirst(seis, az, el, sz, l) ==
  <<CallReset>>
    \o (IF seis THEN <<CallScale(<<Unit, -Unit, -Unit>>)>> ELSE <<>>)
    \o << CallRotate(90, "x"),
          CallRotate(az, "y"),
          CallRotate(el, "x"),
          CallTranslate(l),
          CallScale(<<sz * Unit, sz * Unit, DepthScale>>) >>

\* Faulty variant: the transform is not reset before the calls.
AxisCallsNoReset(seis, az, el, sz, l) ==
  (IF seis THEN <<CallScale(<<Unit, -Unit, -Unit>>)>> ELSE <<>>)
    \o << CallRotate(90, "x"),
          CallRotate(az, "y"),
          CallRotate(el, "x"),
          CallScale(<<sz * Unit, sz * Unit, DepthScale>>),
          CallTranslate(l) >>

\* Faulty variant: the flip of the seismic convention made after the
\* rotations instead of before them.
AxisCallsFlipLast(seis, az, el, sz, l) ==
  << CallReset,
     CallRotate(90, "x"),
     CallRotate(az, "y"),
     CallRotate(el, "x") >>
    \o (IF seis THEN <<CallScale(<<Unit, -Unit, -Unit>>)>> ELSE <<>>)
    \o << CallScale(<<sz * Unit, sz * Unit, DepthScale>>),
          CallTranslate(l) >>

\* The calls _update_axis makes on self.transform when a parent is attached.
AxisCalls(seis, az, el, sz, l) ==
  <<CallReset>>
    \o (IF seis THEN <<CallScale(<<Unit, -Unit, -Unit>>)>> ELSE <<>>)
    \o << CallRotate(90, "x"),
          CallRotate(az, "y"),
          CallRotate(el, "x"),
          CallScale(<<sz * Unit, sz * Unit, DepthScale>>),
          CallTranslate(l) >>

\* Faulty variant: no check of self.parent.  Without a parent the calls up to
\* the first read of self.parent.camera (line 122) are made, and the read
\* raises AttributeError.
update_axis_unguarded(par, seis, az, el, sz, l, m) ==
  LET all == AxisCalls(seis, az, el, sz, l)
      made == IF par = "None" THEN SubSeq(all, 1, Len(all) - 4) ELSE all
  IN [transform |-> ApplyCalls(m, made),
      calls |-> made,
      camRead |-> par # "None",
      raised |-> IF par = "None" THEN "AttributeError" ELSE "none"]

\* _update_axis on the matrix m: the matrix it leaves, the calls it made on
\* the transform, whether it read parent.camera, and the exception raised.
update_axis(par, seis, az, el, sz, l, m) ==
  IF par = "None"
  THEN [transform |-> m, calls |-> <<>>, camRead |-> FALSE, raised |-> "none"]
  ELSE [transform |-> ApplyCalls(m, AxisCalls(seis, az, el, sz, l)),
        calls |-> AxisCalls(seis, az, el, sz, l),
        camRead |-> TRUE,
        raised |-> "none"]

\* ------------------------------------------------------------------------
\* State

VARIABLES
  loc,                  \* self.loc
  locKind,              \* "tuple" (constructor argument) or "ndarray"
  size,                 \* self.size
  seismic_coord_system, \* self.seismic_coord_system
  anchor,               \* self.anchor: None or a pair
  offset,               \* self.offset: Zero or a pair
  hlCenter,             \* self.highlight.center
  hlAlias,              \* self.highlight.center is the object self.loc
  hlAlpha,              \* alpha of self.highlight's colour, in tenths
  parent,               \* self.parent: "None" or "view"
  azimuth,              \* parent.camera.azimuth
  elevation,            \* parent.camera.elevation
  transform,            \* self.transform.matrix
  lastOp,               \* the handler that ran last
  raised,               \* the exception it raised, or "none"
  calls,                \* the calls it made on self.transform
  camRead,              \* whether it read parent.camera
  streak,               \* handlers in a row that recomputed, up to MaxStreak
  dragPos0,             \* click position of the last set_anchor
  dragLoc0,             \* self.loc at the last set_anchor
  dragCtrl,             \* whether <Ctrl> was held at the last set_anchor
  dragLast              \* last pointer position dragged to since, or None

widget == <<loc, locKind, size, seismic_coord_system, anchor, offset,
            hlCenter, hlAlias, hlAlpha, transform>>
host == <<parent, azimuth, elevation>>
observed == <<lastOp, raised, calls, camRead, streak>>
history == <<dragPos0, dragLoc0, dragCtrl, dragLast>>
vars == <<widget, host, observed, history>>

\* __init__(loc, size, seismic_coord_system, parent), with the camera of the
\* parent at (az, el): the state after construction.
Construct(l, sz, seis, par, az, el) ==
  /\ loc = l
  /\ locKind = "tuple"
  /\ size = sz
  /\ seismic_coord_system = seis
  /\ anchor = None
  /\ offset = Zero
  /\ hlCenter = l
  /\ hlAlias = TRUE
  /\ hlAlpha = Translucent
  /\ parent = par
  /\ azimuth = az
  /\ elevation = el
  /\ LET r == update_axis(par, seis, az, el, sz, l, Identity)
     IN /\ transform = r.transform
        /\ calls = r.calls
        /\ camRead = r.camRead
        /\ raised = r.raised
        /\ streak = IF r.calls # <<>> THEN 1 ELSE 0
  /\ lastOp = "__init__"
  /\ dragPos0 = None
  /\ dragLoc0 = None
  /\ dragCtrl = FALSE
  /\ dragLast = None

\* Construction for the drag handlers: the default seismic convention
\* (line 17), the camera in its home orientation.
Init ==
  \E l \in Pos, sz \in Sizes, par \in {"None", "view"} :
    Construct(l, sz, TRUE, par, 0, 0)

\* Construction for the alignment transform: every camera orientation.
InitAxis ==
  \E l \in Pos, sz \in Sizes, seis \in BOOLEAN, par \in {"None", "view"},
     az \in Azimuths, el \in Elevations :
    Construct(l, sz, seis, par, az, el)

\* The count of recomputes in a row after a handler that called _update_axis
\* with the result r.
Streak(r) ==
  IF r.calls # <<>> /\ r.raised = "none"
  THEN (IF streak < MaxStreak THEN streak + 1 ELSE MaxStreak)
  ELSE 0

\* on_mouse_move(event): recompute when the left button is dragging.
on_mouse_move(button, is_dragging) ==
  LET r == update_axis(parent, seismic_coord_system, azimuth, elevation,
                       size, loc, transform)
  IN /\ lastOp' = "on_mouse_move"
     /\ IF button = 1 /\ is_dragging
        THEN /\ transform' = r.transform
             /\ calls' = r.calls
             /\ camRead' = r.camRead
             /\ raised' = r.raised
             /\ streak' = Streak(r)
        ELSE /\ transform' = transform
             /\ calls' = <<>>
             /\ camRead' = FALSE
             /\ raised' = "none"
             /\ streak' = 0
     /\ UNCHANGED <<loc, locKind, size, seismic_coord_system, anchor, offset,
                    hlCenter, hlAlias, hlAlpha>>
     /\ UNCHANGED <<host, history>>

\* Faulty variant: the click position itself is kept as the anchor.
AbsoluteAnchor(click_pos, l) == click_pos

\* The anchor of line 68: the click position relative to self.loc.
RelativeAnchor(click_pos, l) == VSub(click_pos, l)

\* set_anchor(event), the event at click_pos with <Ctrl> held or not: capture
\* the anchor relative to self.loc.  The modifiers of the event are not read.
set_anchor(click_pos, ctrl) ==
  /\ lastOp' = "set_anchor"
  /\ anchor' = RelativeAnchor(click_pos, loc)
  /\ raised' = "none"
  /\ calls' = <<>>
  /\ camRead' = FALSE
  /\ streak' = 0
  /\ dragPos0' = click_pos
  /\ dragLoc0' = loc
  /\ dragCtrl' = ctrl
  /\ dragLast' = None
  /\ UNCHANGED <<loc, locKind, size, seismic_coord_system, offset,
                 hlCenter, hlAlias, hlAlpha, transform>>
  /\ UNCHANGED host

\* Faulty variant: the drag moves self.loc along with the highlight.
drag_visual_node_moving_loc(pos) ==
  /\ lastOp' = "drag_visual_node"
  /\ calls' = <<>>
  /\ camRead' = FALSE
  /\ streak' = 0
  /\ IF anchor = None
     THEN /\ raised' = "TypeError"
          /\ UNCHANGED <<loc, offset, hlCenter, hlAlias, hlAlpha, dragLast>>
     ELSE LET new_center == VSub(pos, anchor)
          IN /\ raised' = "none"
             /\ offset' = VSub(new_center, loc)
             /\ loc' = new_center
             /\ hlCenter' = new_center
             /\ hlAlias' = FALSE
             /\ hlAlpha' = Opaque
             /\ dragLast' = pos
  /\ UNCHANGED <<locKind, size, seismic_coord_system, anchor, transform>>
  /\ UNCHANGED <<host, dragPos0, dragLoc0, dragCtrl>>

\* Faulty variant: the drag recomputes the transform at the dragged centre.
drag_visual_node_recomputing(pos) ==
  /\ lastOp' = "drag_visual_node"
  /\ IF anchor = None
     THEN /\ raised' = "TypeError"
          /\ calls' = <<>>
          /\ camRead' = FALSE
          /\ streak' = 0
          /\ UNCHANGED <<offset, hlCenter, hlAlias, hlAlpha, dragLast,
                         transform>>
     ELSE LET new_center == VSub(pos, anchor)
              r == update_axis(parent, seismic_coord_system, azimuth,
                               elevation, size, new_center, transform)
          IN /\ raised' = r.raised
             /\ calls' = r.calls
             /\ camRead' = r.camRead
             /\ streak' = Streak(r)
             /\ transform' = r.transform
             /\ offset' = VSub(new_center, loc)
             /\ hlCenter' = new_center
             /\ hlAlias' = FALSE
             /\ hlAlpha' = Opaque
             /\ dragLast' = pos
  /\ UNCHANGED <<loc, locKind, size, seismic_coord_system, anchor>>
  /\ UNCHANGED <<host, dragPos0, dragLoc0, dragCtrl>>

\* Faulty variant: every pointer-move captures the anchor again, at the
\* pointer position.
drag_visual_node_rehooking(pos) ==
  /\ lastOp' = "drag_visual_node"
  /\ calls' = <<>>
  /\ camRead' = FALSE
  /\ streak' = 0
  /\ IF anchor = None
     THEN /\ raised' = "TypeError"
          /\ UNCHANGED <<anchor, offset, hlCenter, hlAlias, hlAlpha, dragLast>>
     ELSE LET new_center == VSub(pos, anchor)
          IN /\ raised' = "none"
             /\ offset' = VSub(new_center, loc)
             /\ anchor' = VSub(pos, loc)
             /\ hlCenter' = new_center
             /\ hlAlias' = FALSE
             /\ hlAlpha' = Opaque
             /\ dragLast' = pos
  /\ UNCHANGED <<loc, locKind, size, seismic_coord_system, transform>>
  /\ UNCHANGED <<host, dragPos0, dragLoc0, dragCtrl>>

\* drag_visual_node(event): pos - None raises TypeError at line 79, before
\* any assignment.
drag_visual_node(pos) ==
  /\ lastOp' = "drag_visual_node"
  /\ calls' = <<>>
  /\ camRead' = FALSE
  /\ streak' = 0
  /\ IF anchor = None
     THEN /\ raised' = "TypeError"
          /\ UNCHANGED <<offset, hlCenter, hlAlias, hlAlpha, dragLast>>
     ELSE LET new_center == VSub(pos, anchor)
          IN /\ raised' = "none"
             /\ offset' = VSub(new_center, loc)
             /\ hlCenter' = new_center
             /\ hlAlias' = FALSE
             /\ hlAlpha' = Opaque
             /\ dragLast' = pos
  /\ UNCHANGED <<loc, locKind, size, seismic_coord_system, anchor, transform>>
  /\ UNCHANGED <<host, dragPos0, dragLoc0, dragCtrl>>

\* Faulty variant: the colour of the highlight is not reverted.
reset_highlight_keeping_color ==
  /\ lastOp' = "reset_highlight"
  /\ hlCenter' = loc
  /\ hlAlias' = TRUE
  /\ raised' = "none"
  /\ calls' = <<>>
  /\ camRead' = FALSE
  /\ streak' = 0
  /\ UNCHANGED <<loc, locKind, size, seismic_coord_system, anchor, offset,
                 hlAlpha, transform>>
  /\ UNCHANGED <<host, history>>

\* reset_highlight(): the highlight goes back to self.loc, translucent.
reset_highlight ==
  /\ lastOp' = "reset_highlight"
  /\ hlCenter' = loc
  /\ hlAlias' = TRUE
  /\ hlAlpha' = Translucent
  /\ raised' = "none"
  /\ calls' = <<>>
  /\ camRead' = FALSE
  /\ streak' = 0
  /\ UNCHANGED <<loc, locKind, size, seismic_coord_system, anchor, offset,
                 transform>>
  /\ UNCHANGED <<host, history>>

\* The value of self.loc + self.offset.
MovedLoc == IF offset = Zero THEN loc ELSE VAdd(loc, offset)

\* update_location(): self.loc += self.offset, recompute, clear the session.
\* tuple += int raises TypeError at line 98; tuple += ndarray rebinds
\* self.loc to a new ndarray; ndarray += ... changes self.loc in place, and
\* with it a highlight centre that is the same object.
update_location ==
  /\ lastOp' = "update_location"
  /\ MovedLoc \in Pos
  /\ IF locKind = "tuple" /\ offset = Zero
     THEN /\ raised' = "TypeError"
          /\ calls' = <<>>
          /\ camRead' = FALSE
          /\ streak' = 0
          /\ UNCHANGED <<loc, locKind, anchor, offset, hlCenter, hlAlias,
                         transform>>
     ELSE LET r == update_axis(parent, seismic_coord_system, azimuth,
                               elevation, size, MovedLoc, transform)
          IN /\ loc' = MovedLoc
             /\ locKind' = "ndarray"
             /\ hlAlias' = (hlAlias /\ locKind = "ndarray")
             /\ hlCenter' = IF hlAlias /\ locKind = "ndarray"
                            THEN MovedLoc ELSE hlCenter
             /\ transform' = r.transform
             /\ calls' = r.calls
             /\ camRead' = r.camRead
             /\ raised' = r.raised
             /\ streak' = Streak(r)
             /\ IF r.raised = "none"
                THEN anchor' = None /\ offset' = Zero
                ELSE UNCHANGED <<anchor, offset>>
  /\ UNCHANGED <<size, seismic_coord_system, hlAlpha>>
  /\ UNCHANGED <<host, history>>

\* The host turns the camera of the view.
camera_change(az, el) ==
  /\ <<az, el>> # <<azimuth, elevation>>
  /\ azimuth' = az
  /\ elevation' = el
  /\ lastOp' = "camera"
  /\ raised' = "none"
  /\ calls' = <<>>
  /\ camRead' = FALSE
  /\ streak' = 0
  /\ UNCHANGED <<widget, parent, history>>

\* The host attaches the widget to a view, or detaches it.
set_parent(p) ==
  /\ p # parent
  /\ parent' = p
  /\ lastOp' = "parent"
  /\ raised' = "none"
  /\ calls' = <<>>
  /\ camRead' = FALSE
  /\ streak' = 0
  /\ UNCHANGED <<widget, azimuth, elevation, history>>

\* The handlers the host calls on pointer and key events, every pointer-down
\* in the selection mode (<Ctrl> held).
Next ==
  \/ \E b \in Buttons, d \in BOOLEAN : on_mouse_move(b, d)
  \/ \E p \in Pos : set_anchor(p, TRUE)
  \/ \E p \in Pos : drag_visual_node(p)
  \/ reset_highlight
  \/ update_location

Spec == Init /\ [][Next]_vars

\* The alignment transform under a camera the host turns.
NextAxis ==
  \/ \E b \in Buttons, d \in BOOLEAN : on_mouse_move(b, d)
  \/ \E az \in Azimuths, el \in Elevations : camera_change(az, el)
  \/ \E p \in {"None", "view"} : set_parent(p)

SpecAxis == InitAxis /\ [][NextAxis]_vars

\* Construction without a parent, the default of line 18.
InitAttach ==
  \E l \in Pos : Construct(l, 2, TRUE, "None", 0, 0)

\* The handlers on a widget the host attaches to a view after construction.
NextAttach ==
  \/ \E b \in Buttons, d \in BOOLEAN : on_mouse_move(b, d)
  \/ \E p \in Pos : set_anchor(p, TRUE)
  \/ \E p \in Pos : drag_visual_node(p)
  \/ reset_highlight
  \/ update_location
  \/ set_parent("view")

SpecAttach == InitAttach /\ [][NextAttach]_vars

\* Construction for the selection mode: one size, no parent.
InitSelect ==
  \E l \in Pos : Construct(l, 1, TRUE, "None", 0, 0)

\* The handlers, the pointer-down with <Ctrl> held or not.
NextSelect ==
  \/ \E b \in Buttons, d \in BOOLEAN : on_mouse_move(b, d)
  \/ \E p \in Pos, c \in BOOLEAN : set_anchor(p, c)
  \/ \E p \in Pos : drag_visual_node(p)
  \/ reset_highlight
  \/ update_location

SpecSelect == InitSelect /\ [][NextSelect]_vars

\* ------------------------------------------------------------------------
\* Properties

\* A drag session is open: an anchor has been captured and not cleared.
Dragging == anchor # None
\* No drag session: the session state of a freshly constructed widget.
Idle == anchor = None /\ offset = Zero

\* C1: a drag from click position p0 through any pointer positions to p1,
\* then released, leaves self.loc at its old value plus (p1 - p0).
C1_CommitShiftsByPointerDelta ==
  (lastOp = "update_location" /\ raised = "none" /\ dragLast # None)
    => loc = VAdd(dragLoc0, VSub(dragLast, dragPos0))

C1_Witness ==
  /\ lastOp = "update_location"
  /\ raised = "none"
  /\ dragLast # None
  /\ dragLast # dragPos0
  /\ dragLoc0 # <<0, 0>>
  /\ loc # dragLoc0

\* C2: while a drag session is open self.loc keeps the value it had when the
\* anchor was captured, whatever pointer moves were handled since.
C2_LocFixedWhileDragging ==
  Dragging => loc = dragLoc0

C2_Witness ==
  /\ Dragging
  /\ dragLast # None
  /\ offset # Zero
  /\ offset # <<0, 0>>
  /\ lastOp = "on_mouse_move"
  /\ calls # <<>>
  /\ loc = dragLoc0

\* C3: cancelling an open drag (reset_highlight) leaves self.loc at its value
\* before the drag and the highlight translucent.
C3_CancelKeepsLoc ==
  (lastOp = "reset_highlight" /\ Dragging)
    => (loc = dragLoc0 /\ hlAlpha = Translucent)

C3_Witness ==
  /\ lastOp = "reset_highlight"
  /\ Dragging
  /\ dragLast # None
  /\ offset # Zero
  /\ offset # <<0, 0>>
  /\ loc = dragLoc0
  /\ hlAlpha = Translucent

\* The click position p lies outside the circle of radius r centred at c.
OutsideCircle(p, c, r) ==
  (p[1] - c[1]) * (p[1] - c[1]) + (p[2] - c[2]) * (p[2] - c[2]) > r * r

\* C4: a pointer-down outside the circle of radius self.size around self.loc,
\* handled in Idle, captures no anchor.
C4_OutsideClickStartsNoDrag ==
  [][(anchor = None /\ lastOp' = "set_anchor"
        /\ OutsideCircle(dragPos0', loc, size))
       => anchor' = None]_vars

\* C5: in Idle a pointer-move (drag_visual_node) or a pointer-up
\* (update_location) raises nothing and changes neither self.loc, the drag
\* session nor the highlight.
C5_IdleMoveAndReleaseAreNoOps ==
  [][(Idle /\ lastOp' \in {"drag_visual_node", "update_location"})
       => /\ raised' = "none"
          /\ loc' = loc
          /\ anchor' = anchor
          /\ offset' = offset
          /\ hlCenter' = hlCenter
          /\ hlAlpha' = hlAlpha]_vars

\* C6: update_location called with a drag session open leaves the session
\* cleared: no anchor, offset reset to zero.
C6_CommitClearsSession ==
  [][(Dragging /\ lastOp' = "update_location")
       => (anchor' = None /\ offset' = Zero)]_vars

\* The calls the alignment algorithm prescribes for the current inputs:
\* reset; scale (1,-1,-1) iff the seismic flag is set; rotate 90 about X;
\* rotate azimuth about Y; rotate elevation about X; scale (size, size,
\* 0.001); translate by self.loc.
C7_ExpectedCalls ==
  LET flip == [op |-> "scale", arg |-> <<Unit, -Unit, -Unit>>]
      rest == << [op |-> "rotate", arg |-> <<90, "x">>],
                 [op |-> "rotate", arg |-> <<azimuth, "y">>],
                 [op |-> "rotate", arg |-> <<elevation, "x">>],
                 [op |-> "scale", arg |-> <<size * Unit, size * Unit, DepthScale>>],
                 [op |-> "translate", arg |-> loc] >>
  IN IF seismic_coord_system
     THEN <<[op |-> "reset", arg |-> <<>>], flip>> \o rest
     ELSE <<[op |-> "reset", arg |-> <<>>]>> \o rest

\* C7: a recompute with a parent attached makes exactly the prescribed calls
\* on the transform, in the prescribed order, and no other; the constructor's
\* recompute included.
C7_RecomputeCallOrder ==
  /\ calls # <<>> => calls = C7_ExpectedCalls
  /\ (parent = "view" /\ lastOp = "__init__") => calls = C7_ExpectedCalls

C7_Witness ==
  /\ lastOp = "on_mouse_move"
  /\ calls = C7_ExpectedCalls
  /\ azimuth = 90
  /\ elevation = -90
  /\ ~seismic_coord_system
  /\ loc # <<0, 0>>

\* C8: without a parent a recompute, whether made by the constructor, by
\* on_mouse_move or by update_location, raises nothing, reads no camera and
\* leaves the matrix as constructed.
C8_NoParentNoRecompute ==
  parent = "None"
    => /\ transform = Identity
       /\ calls = <<>>
       /\ ~camRead
       /\ raised # "AttributeError"

C8_Witness ==
  /\ parent = "None"
  /\ lastOp = "update_location"
  /\ raised = "none"
  /\ loc # dragLoc0
  /\ transform = Identity

\* C9: after a recompute the translation row of the matrix is self.loc with
\* zero depth, for both conventions and every camera orientation and size.
C9_OriginMapsToLoc ==
  calls # <<>> => transform[4] = <<loc[1] * Unit, loc[2] * Unit, 0, Unit>>

C9_Witness ==
  /\ calls # <<>>
  /\ lastOp = "on_mouse_move"
  /\ loc # <<0, 0>>
  /\ size = 2
  /\ azimuth = 180
  /\ elevation = 90
  /\ transform[4] = <<loc[1] * Unit, loc[2] * Unit, 0, Unit>>

\* C10: a recompute that follows a recompute with the same azimuth,
\* elevation, size, location and convention flag leaves the same matrix.
C10_RecomputeDeterministic ==
  [][(calls # <<>> /\ calls' # <<>>
        /\ <<azimuth', elevation', size', loc', seismic_coord_system'>>
             = <<azimuth, elevation, size, loc, seismic_coord_system>>)
       => transform' = transform]_vars

C10_Witness ==
  /\ lastOp = "on_mouse_move"
  /\ calls # <<>>
  /\ streak = 2
  /\ transform # Identity
  /\ azimuth = -90
  /\ elevation = 90

\* The linear part of a matrix: its upper left 3x3 block.
Linear(m) == <<SubSeq(m[1], 1, 3), SubSeq(m[2], 1, 3), SubSeq(m[3], 1, 3)>>

\* The matrix a recompute gives for the current azimuth, elevation, size and
\* location under the non-inverted convention.
C11_PlainTransform ==
  update_axis("view", FALSE, azimuth, elevation, size, loc, Identity).transform

\* C11: for the same azimuth, elevation, size and location, the linear part
\* of the matrix recomputed under the inverted (seismic) convention is the
\* linear part of the non-inverted one pre-multiplied by scale(1,-1,-1).
C11_FlipPremultiplies ==
  (calls # <<>> /\ seismic_coord_system)
    => Linear(transform)
         = Linear(MatMul(ScaleM(<<Unit, -Unit, -Unit>>), C11_PlainTransform))

C11_Witness ==
  /\ calls # <<>>
  /\ seismic_coord_system
  /\ lastOp = "on_mouse_move"
  /\ azimuth = 90
  /\ elevation = -90
  /\ Linear(transform) # Linear(C11_PlainTransform)
  /\ Linear(transform)
       = Linear(MatMul(ScaleM(<<Unit, -Unit, -Unit>>), C11_PlainTransform))

\* C12: after a cancel (reset_highlight) the drag session is cleared, so a
\* pointer-up (update_location) handled right after it, with no new
\* set_anchor, does not move self.loc by the pending offset.
C12_ReleaseAfterCancelKeepsLoc ==
  [][(lastOp = "reset_highlight" /\ lastOp' = "update_location")
       => loc' = loc]_vars

\* C13: right after every update_location handled during a drag with a
\* parent attached, the translation row of the matrix is the new self.loc:
\* the recompute comes after the update of self.loc.
C13_CommitRecomputesWithNewLoc ==
  [][(Dragging /\ parent = "view" /\ lastOp' = "update_location")
       => transform'[4] = <<loc'[1] * Unit, loc'[2] * Unit, 0, Unit>>]_vars

\* The matrix is what a recompute with a parent gives for the current
\* camera, size, convention and location.
UpToDate ==
  transform = update_axis("view", seismic_coord_system, azimuth, elevation,
                          size, loc, Identity).transform

\* C14 as claimed: with the camera fixed, set_anchor, and every
\* drag_visual_node, on_mouse_move and reset_highlight handled while
\* dragging, leave the matrix unchanged.
C14_DragNeverTouchesTransform ==
  [][(lastOp' = "set_anchor"
        \/ (Dragging /\ lastOp' \in {"drag_visual_node", "on_mouse_move",
                                     "reset_highlight"}))
       => transform' = transform]_vars

\* C14 as amended: with the camera fixed, set_anchor, drag_visual_node and
\* reset_highlight leave the matrix unchanged; an on_mouse_move handled
\* while dragging leaves it unchanged when there is no parent or the matrix
\* is up to date.
C14_DragHandlersKeepTransform ==
  [][/\ (lastOp' = "set_anchor"
           \/ (Dragging /\ lastOp' \in {"drag_visual_node", "reset_highlight"}))
          => transform' = transform
     /\ (Dragging /\ lastOp' = "on_mouse_move"
           /\ (parent = "None" \/ UpToDate))
          => transform' = transform]_vars

C14_Witness ==
  /\ Dragging
  /\ parent = "view"
  /\ lastOp = "on_mouse_move"
  /\ calls # <<>>
  /\ streak = 2
  /\ dragLast # None
  /\ dragLast # dragPos0
  /\ UpToDate

\* C15: set_anchor captures click position minus self.loc and makes the
\* highlight opaque, so the highlight is opaque whenever a drag session is
\* open, from the pointer-down on.
C15_OpaqueWhileDragging ==
  /\ (lastOp = "set_anchor") => anchor = VSub(dragPos0, loc)
  /\ Dragging => hlAlpha = Opaque

\* C16: after an update_location that completes, the highlight is
\* translucent again.
C16_TranslucentAfterCommit ==
  (lastOp = "update_location" /\ raised = "none") => hlAlpha = Translucent

\* C17: in every Idle state, and after a cancel, the highlight is centred at
\* self.loc; after a pointer-move to p handled while dragging it is centred
\* at p minus the anchor, which is self.loc plus the offset.
C17_HighlightCentre ==
  /\ (Idle \/ lastOp = "reset_highlight") => hlCenter = loc
  /\ (Dragging /\ lastOp = "drag_visual_node" /\ raised = "none")
       => /\ hlCenter = VSub(dragLast, anchor)
          /\ hlCenter = VAdd(loc, offset)

\* C18: while a drag session is open the anchor is the one captured by
\* set_anchor, click position minus self.loc, whatever pointer-moves and
\* recomputes were handled since.
C18_AnchorFixedWhileDragging ==
  Dragging => (anchor = VSub(dragPos0, dragLoc0) /\ anchor = VSub(dragPos0, loc))

C18_Witness ==
  /\ Dragging
  /\ anchor = VSub(dragPos0, loc)
  /\ anchor # <<0, 0>>
  /\ dragLast # None
  /\ dragLast # dragPos0
  /\ lastOp = "on_mouse_move"
  /\ calls # <<>>

\* C19: a pointer-down handled in Idle without the selection mode (<Ctrl>
\* not held) opens no drag session, and the pointer-moves and pointer-up of
\* that gesture move neither the highlight nor self.loc.
C19_NoSelectionNoDrag ==
  [][/\ (anchor = None /\ lastOp' = "set_anchor" /\ ~dragCtrl')
          => anchor' = None
     /\ (dragPos0 # None /\ ~dragCtrl
           /\ lastOp' \in {"drag_visual_node", "update_location"})
          => (hlCenter' = hlCenter /\ loc' = loc)]_vars

\* C20: a click without movement, set_anchor followed at once by
\* update_location with no offset pending, raises nothing and leaves
\* self.loc unchanged, on a fresh widget as after an earlier commit.
C20_ClickWithoutMoveIsHarmless ==
  [][(lastOp = "set_anchor" /\ offset = Zero /\ lastOp' = "update_location")
       => (raised' = "none" /\ loc' = loc)]_vars

====
